---- MODULE Spec2Model ----
(***************************************************************************)
(* A model of giza_actions: the job polling and result verification of     *)
(* AgentResult (agent.py), and the construction and prediction paths of    *)
(* GizaModel / GizaAgent (model.py, agent.py), and the Enzyme integration   *)
(* (integrations/enzyme: FundCalculator, FundDeployer, Vault).              *)
(***************************************************************************)
EXTENDS Integers, Sequences, FiniteSets, TLC

(***************************************************************************)
(* Bounds of the model.                                                    *)
(***************************************************************************)
MaxReads == 2
MaxTimeout == 2
MaxPollInterval == 2
MaxJitter == 1
MaxLatency == 1
MaxProofId == 2
MaxValue == 2
MaxFeedLen == 2
MaxBlock == 2
MaxAmount == 2
MaxAllowance == 3
MaxDecimals == 1

\* _wait_for reads only differences of time.time(), so the clock is measured
\* from the start of the current wait.  A wait ends at most
\* timeout + latency + poll_interval + jitter after it started.
MaxClock == MaxTimeout + MaxLatency + MaxPollInterval + MaxJitter

(***************************************************************************)
(* Values.                                                                 *)
(***************************************************************************)
None == "None"

\* giza.utils.enums.JobStatus: the two statuses the loop tests for, and
\* PROCESSING for every other status (the loop treats them all alike).
JobStatus == {"PROCESSING", "COMPLETED", "FAILED"}

ProofIds == 1..MaxProofId
ProofJobId == 1
NoJob == [id |-> 0, status |-> None]

VARIABLES
    \* ---- AgentResult (agent.py) ----
    pc,             \* position of the reader of AgentResult.value
    clock,          \* time.time(), measured from the start of the current wait
    timeout,        \* self._timeout
    poll_interval,  \* self._poll_interval
    proof_job,      \* self._proof_job
    verify_job,     \* self._verify_job
    proof,          \* self._proof (its id; 0 is None)
    verified,       \* self.verified
    job,            \* _wait_for: local `job`
    kind,           \* _wait_for: `kind`
    start_time,     \* _wait_for: `start_time`
    wait_timeout,   \* _wait_for: `wait_timeout`
    now,            \* _wait_for: `now`
    created,        \* the JobCreate requests JobsClient.create received
    reads,          \* number of reads of `value` so far
    \* ---- history of the current read / the current wait ----
    observed,       \* <<job id, status>> pairs the loop examined in this run of _verify
    steps,          \* milestones of the current run of _verify
    events,         \* client.get / time.sleep calls of the current wait, and when each returned
    wait_result,    \* how the current wait ended
    read_result,    \* how the current read of `value` ended
    \* ---- GizaModel / GizaAgent (model.py, agent.py) ----
    m_pc,           \* "new", "built", "failed" (the constructor raised), "done"
    ctor,           \* the arguments the constructor was called with
    self,           \* the attributes the constructor set on the object
    call,           \* the arguments predict was called with
    http,           \* the requests sent with requests.post
    runs,           \* number of session.run calls
    out,            \* how predict ended
    \* ---- Enzyme integration (integrations/enzyme) ----
    e_pc,           \* "idle", "done" (one operation was called)
    head,           \* chain.blocks[-1].number
    allowance,      \* denomination_asset.allowance(sender, vault_proxy)
    decimals,       \* Vault.denomination_asset_decimals
    ecall,          \* the operation called and its arguments
    txs             \* the contract calls, queries and transactions it made

pollVars == <<pc, clock, timeout, poll_interval, proof_job, verify_job, proof,
              verified, job, kind, start_time, wait_timeout, now, created,
              reads, observed, steps, events, wait_result, read_result>>

modelVars == <<m_pc, ctor, self, call, http, runs, out>>

enzymeVars == <<e_pc, head, allowance, decimals, ecall, txs>>

vars == <<pollVars, modelVars, enzymeVars>>

(***************************************************************************)
(* AgentResult._wait_for: the branch taken by one iteration of the loop.   *)
(***************************************************************************)
Branch_TimeoutReturns(status, t, deadline) ==
    IF status = "COMPLETED" THEN "return"
    ELSE IF status = "FAILED" THEN "ValueError"
    ELSE IF t > deadline THEN "return"
    ELSE "poll"

Branch_IgnoreFailed(status, t, deadline) ==
    IF status = "COMPLETED" THEN "return"
    ELSE IF t > deadline THEN "TimeoutError"
    ELSE "poll"

Branch_DeadlineFirst(status, t, deadline) ==
    IF t > deadline THEN "TimeoutError"
    ELSE IF status = "COMPLETED" THEN "return"
    ELSE IF status = "FAILED" THEN "ValueError"
    ELSE "poll"

Branch(status, t, deadline) ==
    IF status = "COMPLETED" THEN "return"
    ELSE IF status = "FAILED" THEN "ValueError"
    ELSE IF t > deadline THEN "TimeoutError"
    ELSE "poll"

\* `now = time.time()` at the top of every iteration.
LoopNow_Stale == start_time

LoopNow == clock

\* The argument of time.sleep at the end of an iteration.
SleepArg_Backoff == poll_interval * (1 + Len(events) \div 2)

SleepArg == poll_interval

\* The JobCreate of _start_verify_job.
JobCreate_NoProof == [size |-> "S", proof_id |-> 0, kind |-> "VERIFY"]

JobCreate == [size |-> "S", proof_id |-> proof, kind |-> "VERIFY"]

\* The id the service gives the next job it creates.
NextJobId == ProofJobId + Len(created) + 1

(***************************************************************************)
(* Initial state: an AgentResult as its constructor leaves it.             *)
(***************************************************************************)
InitPoll ==
    /\ pc = "idle"
    /\ clock = 0
    /\ timeout \in 0..MaxTimeout
    /\ poll_interval \in 1..MaxPollInterval
    /\ \E s \in JobStatus : proof_job = [id |-> ProofJobId, status |-> s]
    /\ verify_job = NoJob
    /\ proof = 0
    /\ verified = FALSE
    /\ job = NoJob
    /\ kind = None
    /\ start_time = 0
    /\ wait_timeout = 0
    /\ now = 0
    /\ created = <<>>
    /\ reads = 0
    /\ observed = {}
    /\ steps = <<>>
    /\ events = <<>>
    /\ wait_result = None
    /\ read_result = None

\* The first two lines of _wait_for(j, client, timeout, poll_interval, k).
EnterWait(j, k) ==
    /\ job' = j
    /\ kind' = k
    /\ clock' = 0
    /\ start_time' = clock'
    /\ wait_timeout' = start_time' + timeout
    /\ events' = <<>>
    /\ wait_result' = "running"
    /\ pc' = "loop"

\* AgentResult.value: return the value if verified, else run _verify, which
\* starts with _wait_for_proof.
ReadValue ==
    /\ pc = "idle"
    /\ reads < MaxReads
    /\ reads' = reads + 1
    /\ IF verified
       THEN /\ read_result' = "value"
            /\ UNCHANGED <<pc, clock, job, kind, start_time, wait_timeout,
                           events, wait_result, steps, observed>>
       ELSE /\ read_result' = "running"
            /\ steps' = <<>>
            /\ observed' = {}
            /\ EnterWait(proof_job, "PROOF")
    /\ UNCHANGED <<timeout, poll_interval, proof_job, verify_job, proof,
                   verified, now, created,
                   modelVars, enzymeVars>>

\* One iteration of `while True` up to the branch on the job's status.
Loop ==
    /\ pc = "loop"
    /\ now' = LoopNow
    /\ observed' = observed \cup {<<job.id, job.status>>}
    /\ LET b == Branch(job.status, now', wait_timeout) IN
        CASE b = "return" ->
                /\ wait_result' = "return"
                /\ IF kind = "PROOF"
                   THEN /\ steps' = Append(steps, "proof_completed")
                        /\ pc' = "get_proof"
                        /\ UNCHANGED <<verified, read_result>>
                   ELSE /\ steps' = Append(steps, "verify_completed")
                        /\ verified' = TRUE
                        /\ read_result' = "value"
                        /\ pc' = "idle"
          [] b \in {"ValueError", "TimeoutError"} ->
                /\ wait_result' = b
                /\ read_result' = b
                /\ pc' = "idle"
                /\ UNCHANGED <<verified, steps>>
          [] OTHER ->
                /\ pc' = "poll"
                /\ UNCHANGED <<verified, steps, wait_result, read_result>>
    /\ UNCHANGED <<clock, timeout, poll_interval, proof_job, verify_job, proof,
                   job, kind, start_time, wait_timeout, created, reads, events,
                   modelVars, enzymeVars>>

\* job = client.get(job.id, params={"kind": kind})
Poll ==
    /\ pc = "poll"
    /\ \E s \in JobStatus, l \in 0..MaxLatency :
        /\ clock + l <= MaxClock
        /\ job' = [id |-> job.id, status |-> s]
        /\ clock' = clock + l
    /\ events' = Append(events, [op |-> "get", arg |-> job.id, at |-> clock'])
    /\ pc' = "sleep"
    /\ UNCHANGED <<timeout, poll_interval, proof_job, verify_job, proof,
                   verified, kind, start_time, wait_timeout, now, created,
                   reads, observed, steps, wait_result, read_result,
                   modelVars, enzymeVars>>

\* time.sleep(poll_interval)
Sleep ==
    /\ pc = "sleep"
    /\ \E j \in 0..MaxJitter :
        /\ clock + SleepArg + j <= MaxClock
        /\ clock' = clock + SleepArg + j
    /\ events' = Append(events, [op |-> "sleep", arg |-> SleepArg, at |-> clock'])
    /\ pc' = "loop"
    /\ UNCHANGED <<timeout, poll_interval, proof_job, verify_job, proof,
                   verified, job, kind, start_time, wait_timeout, now, created,
                   reads, observed, steps, wait_result, read_result,
                   modelVars, enzymeVars>>

\* _wait_for_proof, after the wait: self._proof = get_proof(...)
GetProof ==
    /\ pc = "get_proof"
    /\ \E p \in ProofIds : proof' = p
    /\ steps' = Append(steps, "get_proof")
    /\ pc' = "create"
    /\ UNCHANGED <<clock, timeout, poll_interval, proof_job, verify_job,
                   verified, job, kind, start_time, wait_timeout, now, created,
                   reads, observed, events, wait_result, read_result,
                   modelVars, enzymeVars>>

\* self._verify_job = _start_verify_job(...), then _wait_for_verify begins.
StartVerifyJob ==
    /\ pc = "create"
    /\ \E s \in JobStatus :
        LET vj == [id |-> NextJobId, status |-> s] IN
        /\ created' = Append(created, [id |-> vj.id, request |-> JobCreate])
        /\ verify_job' = vj
        /\ EnterWait(vj, "VERIFY")
    /\ steps' = Append(steps, "create")
    /\ UNCHANGED <<timeout, poll_interval, proof_job, proof, verified,
                   now, reads, observed, read_result,
                   modelVars, enzymeVars>>

(***************************************************************************)
(* GizaModel (model.py) and GizaAgent.predict (agent.py).                  *)
(*                                                                         *)
(* Python values are written as strings: None is "None", the integers 0    *)
(* and 1 are "0" and "1".                                                  *)
(***************************************************************************)
ModelPaths == {None, "model.onnx"}
Ids == {None, "0", "1"}
OutputPaths == {None, "out"}
InputFiles == {None, "input.json"}
Frameworks == {"CAIRO", "EZKL", "OTHER"}
VersionStatuses == {"COMPLETED", "FAILED"}
\* str() of what get_deployment_uri returns
Deployments == {"None", "https://deployment"}
RequestIds == {"req-1", "req-2"}

\* The truth value Python gives None, 0 and "".
Truthy(x) == x \notin {None, "0", ""}

\* A Python str, and json.dumps of it (the text between double quotes).
Str(text) == [quoted |-> FALSE, text |-> text]
JsonDumps(str) == [quoted |-> TRUE, text |-> str.text]
NoStr == Str(None)

\* input_feed: None, or a dict in its iteration order.
FeedNames == {"input_data", "x"}
FeedEntries == [name : FeedNames, value : 1..MaxValue, nd : BOOLEAN]
NoFeed == [given |-> FALSE, entries |-> <<>>]
Dicts ==
    {d \in UNION {[1..n -> FeedEntries] : n \in 0..MaxFeedLen} :
        \A i, j \in DOMAIN d : i # j => d[i].name # d[j].name}
Feeds == {NoFeed} \cup {[given |-> TRUE, entries |-> d] : d \in Dicts}

\* The response to requests.post.
Responses ==
    [status : {"ok", "error"}, result : {<<v>> : v \in 1..MaxValue},
     request_id : RequestIds]

NoUri == [base |-> "", suffix |-> ""]
NoSelf == [attrs |-> {}, session |-> None, framework |-> None, uri |-> NoUri,
           agent |-> FALSE]
NoCtor == [model_path |-> None, id |-> None, version |-> None,
           output_path |-> None, exc |-> None]
NoPreds == [parser |-> None, data |-> <<>>]
NoOut == [kind |-> None, exc |-> None, msg |-> None, shape |-> None,
          preds |-> NoPreds, request_id |-> NoStr, result |-> NoPreds,
          endpoint |-> None]
NoResponse == [status |-> None, result |-> <<>>, request_id |-> None]
NoCall == [method |-> None, input_file |-> None, input_feed |-> NoFeed,
           verifiable |-> FALSE, response |-> NoResponse]

Raise(exc, msg) == [NoOut EXCEPT !.kind = "raise", !.exc = exc, !.msg = msg]
Return(shape, preds, request_id) ==
    [NoOut EXCEPT !.kind = "return", !.shape = shape, !.preds = preds,
                  !.request_id = request_id]
\* What a call did: how it ended, the requests it posted, the inferences it ran.
Effect(o, posts, ran) == [out |-> o, posts |-> posts, ran |-> ran]

\* GizaModel.__init__: the four checks of the arguments.
CtorCheck(model_path, id, version) ==
    IF model_path = None /\ id = None /\ version = None THEN "ValueError"
    ELSE IF model_path = None /\ (id = None \/ version = None) THEN "ValueError"
    ELSE IF Truthy(model_path) /\ (Truthy(id) \/ Truthy(version)) THEN "ValueError"
    ELSE IF Truthy(model_path) /\ Truthy(id) /\ Truthy(version) THEN "ValueError"
    ELSE None

\* GizaModel._retrieve_uri: f"{uri}/cairo_run" or f"{uri}/predict".
RetrieveUri(framework, deployment) ==
    [base |-> deployment,
     suffix |-> IF framework = "CAIRO" THEN "/cairo_run" ELSE "/predict"]

\* The truth value of a str: it is not empty.
StrTruthy(u) == u.base # "" \/ u.suffix # ""

\* GizaModel.__init__: the exception raised (or None) and the object built.
GizaModelInit(model_path, id, version, output_path, framework, status, deployment) ==
    LET checked == CtorCheck(model_path, id, version) IN
    IF checked # None THEN [exc |-> checked, self |-> NoSelf]
    ELSE IF Truthy(model_path)
    THEN [exc |-> None,
          self |-> [NoSelf EXCEPT !.attrs = {"session"}, !.session = "ort"]]
    ELSE IF Truthy(id) /\ Truthy(version)
    THEN LET remote ==
                [NoSelf EXCEPT
                    !.attrs = {"model_client", "version_client", "api_client",
                               "version", "session", "framework", "uri"},
                    !.framework = framework,
                    !.uri = RetrieveUri(framework, deployment)] IN
         IF ~Truthy(output_path) THEN [exc |-> None, self |-> remote]
         \* _download_model
         ELSE IF status # "COMPLETED" THEN [exc |-> "ValueError", self |-> NoSelf]
         ELSE [exc |-> None, self |-> [remote EXCEPT !.session = "ort"]]
    ELSE [exc |-> None, self |-> NoSelf]

\* One serialized argument of a request.
Token(src, value) == [src |-> src, value |-> value]

\* GizaModel._format_inputs_for_cairo: the loop over input_feed from entry i,
\* with local `tensor` (0: not yet bound) and the list built so far.
RECURSIVE CairoFeed(_, _, _, _)
CairoFeed(entries, i, tensor, serialized) ==
    IF i > Len(entries) THEN [exc |-> None, msg |-> None, args |-> serialized]
    ELSE IF entries[i].nd
    THEN CairoFeed(entries, i + 1, entries[i].value,
                   Append(serialized, Token("feed", entries[i].value)))
    ELSE IF tensor = 0
    THEN [exc |-> "UnboundLocalError", msg |-> "tensor", args |-> <<>>]
    ELSE CairoFeed(entries, i + 1, tensor,
                   Append(serialized, Token("feed", tensor)))

FormatInputsForCairo(input_file, input_feed) ==
    LET serialized == IF input_file # None THEN <<Token("file", 0)>> ELSE <<>> IN
    IF input_feed.given
    THEN CairoFeed(input_feed.entries, 1, 0, serialized)
    ELSE [exc |-> None, msg |-> None, args |-> serialized]

\* GizaModel._format_inputs_for_ezkl
FormatInputsForEzkl(input_file, input_feed) ==
    IF input_file # None
    THEN [exc |-> None, msg |-> None, args |-> <<Token("file", 0)>>]
    ELSE IF input_feed.given
    THEN LET e == input_feed.entries IN
         IF \E i \in DOMAIN e : e[i].name = "input_data"
         THEN LET i == CHOOSE k \in DOMAIN e : e[k].name = "input_data" IN
              [exc |-> None, msg |-> None, args |-> <<Token("feed", e[i].value)>>]
         ELSE [exc |-> "KeyError", msg |-> "input_data", args |-> <<>>]
    ELSE [exc |-> "UnboundLocalError", msg |-> "data", args |-> <<>>]

\* GizaModel._format_inputs_for_framework: match self.framework.
FormatInputsForFramework_DefaultEzkl(framework, input_file, input_feed) ==
    IF framework = "CAIRO"
    THEN [formatter |-> "cairo"] @@ FormatInputsForCairo(input_file, input_feed)
    ELSE [formatter |-> "ezkl"] @@ FormatInputsForEzkl(input_file, input_feed)

FormatInputsForFramework(framework, input_file, input_feed) ==
    CASE framework = "CAIRO" ->
            [formatter |-> "cairo"] @@ FormatInputsForCairo(input_file, input_feed)
      [] framework = "EZKL" ->
            [formatter |-> "ezkl"] @@ FormatInputsForEzkl(input_file, input_feed)
      [] OTHER ->
            [formatter |-> None, exc |-> "ValueError",
             msg |-> "Unsupported framework", args |-> <<>>]

\* GizaModel.predict, the verifiable branch.
PredictVerifiable(obj, input_file, input_feed, response) ==
    IF "uri" \notin obj.attrs
    THEN Effect(Raise("AttributeError", "uri"), <<>>, 0)
    ELSE IF ~StrTruthy(obj.uri)
    THEN Effect(Raise("ValueError", "Model has not been deployed"), <<>>, 0)
    ELSE
    LET payload == FormatInputsForFramework(obj.framework, input_file, input_feed) IN
    IF payload.exc # None
    THEN Effect(Raise(payload.exc, payload.msg), <<>>, 0)
    ELSE
    LET post == [uri |-> obj.uri, formatter |-> payload.formatter,
                 args |-> payload.args] IN
    IF response.status # "ok"
    THEN Effect(Raise("HTTPError", "raise_for_status"), <<post>>, 0)
    ELSE IF obj.framework = "CAIRO"
    THEN Effect(Return("tuple", [parser |-> "cairo", data |-> response.result],
                       JsonDumps(Str(response.request_id))), <<post>>, 0)
    ELSE IF obj.framework = "EZKL"
    THEN Effect(Return("tuple", [parser |-> "ezkl", data |-> <<response.result[1]>>],
                       Str(response.request_id)), <<post>>, 0)
    ELSE Effect(Raise("UnboundLocalError", "preds"), <<post>>, 0)

\* GizaModel.predict, the local branch.
PredictLocal(obj, input_feed) ==
    IF "session" \notin obj.attrs
    THEN Effect(Raise("AttributeError", "session"), <<>>, 0)
    ELSE IF obj.session = None
    THEN Effect(Raise("ValueError", "Session is not initialized."), <<>>, 0)
    ELSE IF ~input_feed.given
    THEN Effect(Raise("ValueError", "Input feed is none"), <<>>, 0)
    ELSE Effect(Return("bare", [parser |-> "onnxruntime", data |-> <<>>], NoStr),
                <<>>, 1)

\* GizaModel.predict: `except Exception` logs and raises the same exception.
ModelPredict(obj, input_file, input_feed, verifiable, response) ==
    IF verifiable
    THEN PredictVerifiable(obj, input_file, input_feed, response)
    ELSE PredictLocal(obj, input_feed)

\* The parameters GizaModel.predict declares, and the keyword arguments
\* GizaAgent.predict passes to it.
GizaModelPredictParams ==
    {"input_file", "input_feed", "verifiable", "fp_impl", "output_dtype", "job_size"}
SuperPredictKeywords ==
    {"input_file", "input_feed", "verifiable", "fp_impl", "custom_output_dtype",
     "job_size"}

\* GizaAgent.predict
AgentPredictEffect(obj, input_file, input_feed, verifiable, response) ==
    IF ~(SuperPredictKeywords \subseteq GizaModelPredictParams)
    THEN Effect(Raise("TypeError", "unexpected keyword argument"), <<>>, 0)
    ELSE
    LET r == ModelPredict(obj, input_file, input_feed, verifiable, response) IN
    IF r.out.kind = "raise" THEN r
    ELSE IF ~verifiable THEN r
    ELSE IF "endpoint_id" \notin obj.attrs
    THEN Effect(Raise("AttributeError", "endpoint_id"), r.posts, r.ran)
    ELSE Effect([NoOut EXCEPT !.kind = "return", !.shape = "AgentResult",
                              !.request_id = r.out.request_id,
                              !.result = r.out.preds,
                              !.endpoint = "endpoint_id"],
                r.posts, r.ran)

InitModel ==
    /\ m_pc = "new"
    /\ ctor = NoCtor
    /\ self = NoSelf
    /\ call = NoCall
    /\ http = <<>>
    /\ runs = 0
    /\ out = NoOut

\* GizaModel(model_path, id, version, output_path)
Construct ==
    /\ m_pc = "new"
    /\ \E model_path \in ModelPaths, id \in Ids, version \in Ids,
          output_path \in OutputPaths, framework \in Frameworks,
          status \in VersionStatuses, deployment \in Deployments :
        LET r == GizaModelInit(model_path, id, version, output_path,
                               framework, status, deployment) IN
        /\ ctor' = [model_path |-> model_path, id |-> id, version |-> version,
                    output_path |-> output_path, exc |-> r.exc]
        /\ self' = r.self
        /\ m_pc' = IF r.exc = None THEN "built" ELSE "failed"
    /\ UNCHANGED <<call, http, runs, out, pollVars, enzymeVars>>

\* GizaAgent(id, version_id, contract_address, chain, account)
ConstructAgent ==
    /\ m_pc = "new"
    /\ \E id \in Ids, version \in Ids, output_path \in OutputPaths,
          framework \in Frameworks, status \in VersionStatuses,
          deployment \in Deployments, chain_found \in BOOLEAN,
          passphrase_in_env \in BOOLEAN :
        LET r == GizaModelInit(None, id, version, output_path,
                               framework, status, deployment)
            exc == IF r.exc # None THEN r.exc
                   ELSE IF ~chain_found THEN "ValueError"
                   ELSE IF ~passphrase_in_env THEN "ValueError"
                   ELSE None
        IN
        /\ ctor' = [model_path |-> None, id |-> id, version |-> version,
                    output_path |-> output_path, exc |-> exc]
        /\ self' = IF exc # None THEN NoSelf
                   ELSE [r.self EXCEPT
                            !.attrs = @ \cup {"contract_address", "chain",
                                              "account", "_provider"},
                            !.agent = TRUE]
        /\ m_pc' = IF exc = None THEN "built" ELSE "failed"
    /\ UNCHANGED <<call, http, runs, out, pollVars, enzymeVars>>

\* One call of predict: its arguments, the response the deployment gives to
\* a request, the effects of the call and how it ended.
Called(method, input_file, input_feed, verifiable, response, effect) ==
    /\ call' = [method |-> method, input_file |-> input_file,
                input_feed |-> input_feed, verifiable |-> verifiable,
                response |-> response]
    /\ out' = effect.out
    /\ http' = http \o effect.posts
    /\ runs' = runs + effect.ran
    /\ m_pc' = "done"

\* GizaModel.predict(input_file, input_feed, verifiable)
Predict ==
    /\ m_pc = "built"
    /\ ~self.agent
    /\ \E input_file \in InputFiles, input_feed \in Feeds,
          verifiable \in BOOLEAN, response \in Responses :
        Called("GizaModel.predict", input_file, input_feed, verifiable, response,
               ModelPredict(self, input_file, input_feed, verifiable, response))
    /\ UNCHANGED <<ctor, self, pollVars, enzymeVars>>

\* GizaAgent.predict(input_file, input_feed, verifiable)
AgentPredict ==
    /\ m_pc = "built"
    /\ self.agent
    /\ \E input_file \in InputFiles, input_feed \in Feeds,
          verifiable \in BOOLEAN, response \in Responses :
        Called("GizaAgent.predict", input_file, input_feed, verifiable, response,
               AgentPredictEffect(self, input_file, input_feed, verifiable, response))
    /\ UNCHANGED <<ctor, self, pollVars, enzymeVars>>

(***************************************************************************)
(* The Enzyme integration: FundCalculator, FundDeployer, Vault.            *)
(*                                                                         *)
(* An int argument that is None is written NoInt.                          *)
(***************************************************************************)
NoInt == -1
Blocks == 0..MaxBlock
QuoteAssets == {None, "USDC"}
Shareholders == {None, "0xholder"}
\* slippage, in percent (0.01 is 1)
Slippages == {0, 1, 50}

\* One interaction with a contract: a read-only call (`.call`), a
\* transaction, or an event query.
NoTx == [kind |-> None, method |-> None, quote_asset |-> None,
         shareholder |-> None, block |-> NoInt, start_block |-> NoInt,
         stop_block |-> NoInt, engine |-> None, amount |-> NoInt,
         allowance |-> NoInt]
NoECall == [op |-> None, quote_asset |-> None, net |-> FALSE,
            shareholder |-> None, block_number |-> NoInt,
            start_block |-> NoInt, end_block |-> NoInt, amount |-> NoInt,
            slippage |-> NoInt, simulate |-> FALSE]

\* block_number, or the latest block when it is None.
BlockIdentifier(block_number) ==
    IF block_number = NoInt THEN head ELSE block_number

\* FundCalculator.get_assets_value: the method of the calculator it calls.
AssetsMethod_Swapped(quote_asset, net) ==
    IF quote_asset = None
    THEN IF net THEN "calcGav" ELSE "calcNav"
    ELSE IF net THEN "calcGavInAsset" ELSE "calcNavInAsset"

AssetsMethod(quote_asset, net) ==
    IF quote_asset = None
    THEN IF net THEN "calcNav" ELSE "calcGav"
    ELSE IF net THEN "calcNavInAsset" ELSE "calcGavInAsset"

\* FundCalculator.get_share_value: the method of the calculator it calls.
ShareMethod(quote_asset, net, shareholder) ==
    IF quote_asset = None
    THEN IF net
         THEN IF shareholder = None THEN "calcNetShareValue"
              ELSE "calcNetValueForSharesHolder"
         ELSE IF shareholder = None THEN "calcGrossShareValue"
              ELSE "calcGrossValueForSharesHolder"
    ELSE IF net
         THEN IF shareholder = None THEN "calcNetShareValueInAsset"
              ELSE "calcNetValueForSharesHolderInAsset"
         ELSE IF shareholder = None THEN "calcGrossShareValueInAsset"
              ELSE "calcGrossValueForSharesHolderInAsset"

RECURSIVE Pow10(_)
Pow10(n) == IF n = 0 THEN 1 ELSE 10 * Pow10(n - 1)

\* Vault.deposit: int((amount * 10**decimals) * (1 - slippage)), computed
\* exactly.
ScaledAmount(amount, slippage) ==
    (amount * Pow10(decimals) * (100 - slippage)) \div 100

\* Vault.deposit: whether approve is sent before buyShares.
Approves(scaled_amount) == scaled_amount < allowance

InitEnzyme ==
    /\ e_pc = "idle"
    /\ head \in 1..MaxBlock
    /\ allowance \in 0..MaxAllowance
    /\ decimals \in 0..MaxDecimals
    /\ ecall = NoECall
    /\ txs = <<>>

\* FundCalculator.get_assets_value(vault_proxy, quote_asset, net, block_number)
GetAssetsValue ==
    /\ e_pc = "idle"
    /\ \E quote_asset \in QuoteAssets, net \in BOOLEAN,
          block_number \in {NoInt} \cup Blocks :
        /\ ecall' = [NoECall EXCEPT !.op = "get_assets_value",
                                    !.quote_asset = quote_asset, !.net = net,
                                    !.block_number = block_number]
        /\ txs' = <<[NoTx EXCEPT !.kind = "call",
                                 !.method = AssetsMethod(quote_asset, net),
                                 !.quote_asset = quote_asset,
                                 !.block = BlockIdentifier(block_number)]>>
    /\ e_pc' = "done"
    /\ UNCHANGED <<head, allowance, decimals, pollVars, modelVars>>

\* FundCalculator.get_share_value(vault_proxy, quote_asset, net, shareholder,
\* block_number)
GetShareValue ==
    /\ e_pc = "idle"
    /\ \E quote_asset \in QuoteAssets, net \in BOOLEAN,
          shareholder \in Shareholders, block_number \in {NoInt} \cup Blocks :
        /\ ecall' = [NoECall EXCEPT !.op = "get_share_value",
                                    !.quote_asset = quote_asset, !.net = net,
                                    !.shareholder = shareholder,
                                    !.block_number = block_number]
        /\ txs' = <<[NoTx EXCEPT !.kind = "call",
                                 !.method = ShareMethod(quote_asset, net, shareholder),
                                 !.quote_asset = quote_asset,
                                 !.shareholder = shareholder,
                                 !.block = BlockIdentifier(block_number)]>>
    /\ e_pc' = "done"
    /\ UNCHANGED <<head, allowance, decimals, pollVars, modelVars>>

\* One NewFundCreated.query("*", start_block, stop_block[, engine_to_use]).
Query(start_block, stop_block, engine) ==
    [NoTx EXCEPT !.kind = "query", !.method = "NewFundCreated",
                 !.start_block = start_block, !.stop_block = stop_block,
                 !.engine = engine]

\* FundDeployer.get_vaults_list(start_block, end_block).  When the subsquid
\* query raises, re.findall(r'\d+', e) is given the exception and not a str,
\* raises TypeError, and the bare except queries with the default engine.
GetVaultsList ==
    /\ e_pc = "idle"
    /\ \E start_block \in Blocks, end_block \in Blocks, subsquid_raises \in BOOLEAN :
        LET start == 0
            stop == IF end_block = 0 THEN head ELSE end_block
        IN
        /\ ecall' = [NoECall EXCEPT !.op = "get_vaults_list",
                                    !.start_block = start_block,
                                    !.end_block = end_block]
        /\ txs' = IF subsquid_raises
                  THEN <<Query(start, stop, "subsquid"), Query(start, stop, "default")>>
                  ELSE <<Query(start, stop, "subsquid")>>
    /\ e_pc' = "done"
    /\ UNCHANGED <<head, allowance, decimals, pollVars, modelVars>>

\* Vault.deposit(amount, slippage, simulate).  approve sets the allowance.
Deposit ==
    /\ e_pc = "idle"
    /\ \E amount \in 0..MaxAmount, slippage \in Slippages, simulate \in BOOLEAN :
        LET scaled_amount == ScaledAmount(amount, slippage)
            approved == Approves(scaled_amount)
            approve == [NoTx EXCEPT !.kind = "transact", !.method = "approve",
                                    !.amount = scaled_amount,
                                    !.allowance = allowance]
            buy == [NoTx EXCEPT !.kind = IF simulate THEN "call" ELSE "transact",
                                !.method = "buyShares",
                                !.amount = scaled_amount,
                                !.allowance = allowance']
        IN
        /\ ecall' = [NoECall EXCEPT !.op = "deposit", !.amount = amount,
                                    !.slippage = slippage, !.simulate = simulate]
        /\ allowance' = IF approved THEN scaled_amount ELSE allowance
        /\ txs' = IF approved THEN <<approve, buy>> ELSE <<buy>>
    /\ e_pc' = "done"
    /\ UNCHANGED <<head, decimals, pollVars, modelVars>>

\* An AgentResult before any read, a GizaModel before its construction, and
\* the Enzyme integration before any operation on one given chain.
Init ==
    /\ InitPoll
    /\ InitModel
    /\ InitEnzyme
    /\ head = 1
    /\ allowance = 0
    /\ decimals = 0

Next ==
    \/ ReadValue
    \/ Loop
    \/ Poll
    \/ Sleep
    \/ GetProof
    \/ StartVerifyJob

Spec == Init /\ [][Next]_vars

\* The reader is one sequential thread: a step it can take, it takes.
SpecLive == Spec /\ WF_vars(Loop) /\ WF_vars(Poll) /\ WF_vars(Sleep)

\* GizaModel and GizaAgent: construction, then one call of predict, beside
\* an AgentResult that nobody reads.
InitM ==
    /\ Init
    /\ timeout = 0
    /\ poll_interval = 1
    /\ proof_job.status = "PROCESSING"

NextModel ==
    \/ Construct
    \/ ConstructAgent
    \/ Predict
    \/ AgentPredict

SpecModel == InitM /\ [][NextModel]_vars

\* The Enzyme integration: one operation, on any chain head, allowance and
\* number of decimals, beside an AgentResult that nobody reads and a
\* GizaModel that is not constructed.
InitE ==
    /\ InitPoll
    /\ timeout = 0
    /\ poll_interval = 1
    /\ proof_job.status = "PROCESSING"
    /\ InitModel
    /\ InitEnzyme

NextEnzyme ==
    \/ GetAssetsValue
    \/ GetShareValue
    \/ GetVaultsList
    \/ Deposit

SpecEnzyme == InitE /\ [][NextEnzyme]_vars

(***************************************************************************)
(* Properties of AgentResult.                                              *)
(***************************************************************************)
WaitErrors == {"ValueError", "TimeoutError"}
WaitOutcomes == {"return"} \cup WaitErrors
IsPrefix(s, t) == Len(s) <= Len(t) /\ \A i \in 1..Len(s) : s[i] = t[i]

\* C1: _wait_for is a bounded polling loop: with the clock advancing by at
\* least poll_interval > 0 per iteration, every wait that starts ends in one
\* of normal return, ValueError or TimeoutError, whatever statuses
\* client.get returns.
C1_WaitTerminates == (wait_result = "running") ~> (wait_result \in WaitOutcomes)

\* A wait that polled at least twice and then timed out.
C1_Witness == wait_result = "TimeoutError" /\ Len(events) >= 4

\* C2: whenever `verified` is True or a read of `value` has returned, the
\* proof job was observed COMPLETED and a verify job created for the fetched
\* proof was observed COMPLETED.
C2_ValueOnlyVerified ==
    (verified \/ read_result = "value") =>
        /\ <<ProofJobId, "COMPLETED">> \in observed
        /\ \E i \in DOMAIN created :
            /\ created[i].request.kind = "VERIFY"
            /\ created[i].request.proof_id = proof
            /\ <<created[i].id, "COMPLETED">> \in observed

\* A read that returned the value after both waits had to poll.
C2_Witness == read_result = "value" /\ kind = "VERIFY" /\ Len(events) >= 2

\* C3: a wait returns only on COMPLETED, raises ValueError only on FAILED,
\* raises TimeoutError only on another status with the time past
\* start + timeout; and when a wait raises, the read of `value` raises the
\* same error, returns nothing and leaves `verified` False.
C3_WaitOutcomes ==
    /\ wait_result = "return" => job.status = "COMPLETED"
    /\ wait_result = "ValueError" => job.status = "FAILED"
    /\ wait_result = "TimeoutError" =>
        /\ job.status \notin {"COMPLETED", "FAILED"}
        /\ now > start_time + timeout
        /\ clock >= now
    /\ wait_result \in WaitErrors =>
        /\ read_result = wait_result
        /\ ~verified
        /\ pc = "idle"

\* The verify wait timed out after polling.
C3_Witness ==
    wait_result = "TimeoutError" /\ kind = "VERIFY" /\ Len(events) >= 2

\* C4: within one run of _verify the verify job is created only after the
\* proof job was observed COMPLETED and the proof was fetched, it carries the
\* id of that proof, and a failed or timed out proof wait fetches no proof
\* and creates no verify job.
C4_VerifyOrder ==
    /\ IsPrefix(steps,
                <<"proof_completed", "get_proof", "create", "verify_completed">>)
    /\ Len(steps) >= 3 =>
        /\ <<ProofJobId, "COMPLETED">> \in observed
        /\ proof \in ProofIds
        /\ created # <<>>
        /\ created[Len(created)].request.proof_id = proof
        /\ created[Len(created)].id = verify_job.id
    /\ (kind = "PROOF" /\ wait_result \in WaitErrors) => steps = <<>>
    /\ Len(created) <= reads

\* The second run of _verify has created its verify job.
C4_Witness ==
    /\ steps = <<"proof_completed", "get_proof", "create">>
    /\ Len(created) = 2

\* C5: no retry and no backoff: the calls of one wait alternate client.get
\* and time.sleep(poll_interval), and a loop iteration that finds the job
\* FAILED raises at once, with no further client.get and no new job.
EventsAlternate ==
    \A i \in 1..Len(events) :
        IF i % 2 = 1
        THEN events[i].op = "get"
        ELSE events[i].op = "sleep" /\ events[i].arg = poll_interval

FailedRaisesAtOnce ==
    (pc = "loop" /\ job.status = "FAILED") =>
        /\ wait_result' = "ValueError"
        /\ pc' = "idle"
        /\ events' = events
        /\ created' = created

C5_NoRetryNoBackoff == [](EventsAlternate) /\ [][FailedRaisesAtOnce]_vars

\* A wait that polled twice and then found the job FAILED.
C5_Witness == wait_result = "ValueError" /\ Len(events) >= 4

\* The status of the job a wait is started with.
InitialStatus == IF kind = "PROOF" THEN proof_job.status ELSE verify_job.status

\* C14: the status is examined before the deadline in every iteration: a
\* wait whose latest fetched status is COMPLETED ends in a normal return and
\* never in TimeoutError, also when that status arrived after the deadline,
\* and a wait started on a job that is already COMPLETED or FAILED ends
\* without a single client.get.
C14_StatusBeforeDeadline ==
    /\ (wait_result \in WaitOutcomes /\ job.status = "COMPLETED") =>
            wait_result = "return"
    /\ (wait_result \in WaitOutcomes /\ job.status = "FAILED") =>
            wait_result = "ValueError"
    /\ (kind # None /\ InitialStatus \in {"COMPLETED", "FAILED"}) =>
        /\ events = <<>>
        /\ wait_result \in WaitOutcomes \/ pc = "loop"

\* A wait returned normally on a COMPLETED status that client.get delivered
\* after the deadline.
C14_Witness ==
    /\ wait_result = "return"
    /\ Len(events) >= 2
    /\ events[Len(events) - 1].op = "get"
    /\ events[Len(events) - 1].at > wait_timeout
    /\ now > wait_timeout

(***************************************************************************)
(* Properties of GizaModel and GizaAgent.                                  *)
(***************************************************************************)
Given(x) == x # None
Constructed == m_pc \in {"built", "done"}
ModelPredictDone == m_pc = "done" /\ call.method = "GizaModel.predict"
AgentPredictDone == m_pc = "done" /\ call.method = "GizaAgent.predict"

\* The two modes of construction: model_path alone, or id and version
\* without model_path.
ValidCombination(c) ==
    \/ Given(c.model_path) /\ ~Given(c.id) /\ ~Given(c.version)
    \/ ~Given(c.model_path) /\ Given(c.id) /\ Given(c.version)

\* C6: construction succeeds only when exactly one of the two modes is
\* given (model_path alone, or id and version without model_path, 0
\* included); every other combination of arguments raises ValueError.
C6_CtorRejectsOtherCombinations ==
    /\ Constructed => ValidCombination(ctor)
    /\ (m_pc = "failed" /\ ~ValidCombination(ctor)) => ctor.exc = "ValueError"

\* C7: GizaModel.predict returns a tuple (predictions, request_id), with
\* request_id the identifier of the request when verifiable and None
\* otherwise.
C7_PredictReturnsTuple ==
    (ModelPredictDone /\ out.kind = "return") =>
        /\ out.shape = "tuple"
        /\ call.verifiable => out.request_id.text = call.response.request_id
        /\ ~call.verifiable => out.request_id = NoStr

\* C8: on a model its constructor initialised, predict raises
\* ValueError("Model has not been deployed") when verifiable with no
\* deployment URI, and ValueError when not verifiable with the session None
\* or input_feed None; in each of these cases no request is sent and no
\* inference is run.
C8_PredictValueErrors ==
    (ModelPredictDone /\ self.attrs # {}) =>
        /\ (call.verifiable /\ "uri" \notin self.attrs) =>
            /\ out = Raise("ValueError", "Model has not been deployed")
            /\ http = <<>>
            /\ runs = 0
        /\ (~call.verifiable /\ (self.session = None \/ ~call.input_feed.given)) =>
            /\ out.kind = "raise"
            /\ out.exc = "ValueError"
            /\ http = <<>>
            /\ runs = 0

\* C9: GizaAgent.predict, when the model's predict returns: not verifiable,
\* it returns the model's prediction unchanged and no AgentResult;
\* verifiable, it returns an AgentResult with the model's request_id and
\* prediction and the agent's endpoint.
C9_AgentPredictReturns ==
    AgentPredictDone =>
        LET m == ModelPredict(self, call.input_file, call.input_feed,
                              call.verifiable, call.response).out IN
        m.kind = "return" =>
            /\ ~call.verifiable => out = m
            /\ call.verifiable =>
                /\ out.kind = "return"
                /\ out.shape = "AgentResult"
                /\ out.request_id = m.request_id
                /\ out.result = m.preds
                /\ out.endpoint = "endpoint_id"

\* C10: a verifiable prediction on a deployed model branches on the
\* framework: CAIRO posts to <uri>/cairo_run what the Cairo formatter built
\* and parses the response with the Cairo parser; EZKL posts to
\* <uri>/predict what the EZKL formatter built; any other framework raises
\* ValueError("Unsupported framework") with no request sent and no
\* prediction returned.
C10_FrameworkBranch ==
    (ModelPredictDone /\ call.verifiable /\ "uri" \in self.attrs) =>
        /\ Len(http) <= 1
        /\ out.kind = "return" => Len(http) = 1
        /\ self.framework = "CAIRO" =>
            /\ \A i \in DOMAIN http :
                /\ http[i].uri.suffix = "/cairo_run"
                /\ http[i].formatter = "cairo"
            /\ out.kind = "return" => out.preds.parser = "cairo"
        /\ self.framework = "EZKL" =>
            /\ \A i \in DOMAIN http :
                /\ http[i].uri.suffix = "/predict"
                /\ http[i].formatter = "ezkl"
            /\ out.kind = "return" => out.preds.parser = "ezkl"
        /\ self.framework \notin {"CAIRO", "EZKL"} =>
            /\ out = Raise("ValueError", "Unsupported framework")
            /\ http = <<>>

\* A verifiable prediction on a deployed model of another framework, with
\* an input the formatters accept, has raised.
C10_Witness ==
    /\ ModelPredictDone
    /\ call.verifiable
    /\ "uri" \in self.attrs
    /\ self.framework = "OTHER"
    /\ call.input_file # None
    /\ out.kind = "raise"

\* The arguments the claim expects of the Cairo formatter: the serialized
\* input_file (if any), then one argument per entry of input_feed, in order,
\* each from the entry's own value.
ExpectedCairoArgs(input_file, input_feed) ==
    (IF input_file # None THEN <<Token("file", 0)>> ELSE <<>>)
    \o [i \in 1..Len(input_feed.entries) |->
            Token("feed", input_feed.entries[i].value)]

\* C11: the Cairo formatter serializes every input: for every input_feed the
\* "args" of the request hold, after the serialized input_file, exactly one
\* argument per entry of the feed, in the feed's order, each derived from
\* that entry's own value, whether the value is a numpy array or not.
C11_CairoArgsPerEntry ==
    (/\ ModelPredictDone
     /\ call.verifiable
     /\ "uri" \in self.attrs
     /\ self.framework = "CAIRO") =>
        /\ ~(out.kind = "raise" /\ out.exc = "UnboundLocalError")
        /\ Len(http) = 1
        /\ http[1].args = ExpectedCairoArgs(call.input_file, call.input_feed)

(***************************************************************************)
(* Properties of the Enzyme integration.                                   *)
(***************************************************************************)
EnzymeDone(op) == e_pc = "done" /\ ecall.op = op

\* The calculator's method for (quote_asset given, net).
AssetsTable ==
    {<<FALSE, FALSE, "calcGav">>, <<FALSE, TRUE, "calcNav">>,
     <<TRUE, FALSE, "calcGavInAsset">>, <<TRUE, TRUE, "calcNavInAsset">>}

\* The calculator's method for (quote_asset given, net, shareholder given).
ShareTable ==
    {<<FALSE, FALSE, FALSE, "calcGrossShareValue">>,
     <<FALSE, FALSE, TRUE, "calcGrossValueForSharesHolder">>,
     <<FALSE, TRUE, FALSE, "calcNetShareValue">>,
     <<FALSE, TRUE, TRUE, "calcNetValueForSharesHolder">>,
     <<TRUE, FALSE, FALSE, "calcGrossShareValueInAsset">>,
     <<TRUE, FALSE, TRUE, "calcGrossValueForSharesHolderInAsset">>,
     <<TRUE, TRUE, FALSE, "calcNetShareValueInAsset">>,
     <<TRUE, TRUE, TRUE, "calcNetValueForSharesHolderInAsset">>}

\* C12: get_assets_value and get_share_value each make exactly one
\* read-only call, of the method their arguments select (calcGav / calcNav
\* by net, ...InAsset exactly when quote_asset is given; one of the eight
\* share-value methods by quote_asset given, net, shareholder given), at
\* block_number or at the latest block when block_number is None, passing
\* the quote asset and the shareholder exactly when given.
C12_CalculatorMethod ==
    /\ EnzymeDone("get_assets_value") =>
        /\ Len(txs) = 1
        /\ txs[1].kind = "call"
        /\ <<Given(ecall.quote_asset), ecall.net, txs[1].method>> \in AssetsTable
        /\ txs[1].quote_asset = ecall.quote_asset
        /\ txs[1].shareholder = None
        /\ txs[1].block =
            IF ecall.block_number = NoInt THEN head ELSE ecall.block_number
    /\ EnzymeDone("get_share_value") =>
        /\ Len(txs) = 1
        /\ txs[1].kind = "call"
        /\ <<Given(ecall.quote_asset), ecall.net, Given(ecall.shareholder),
             txs[1].method>> \in ShareTable
        /\ txs[1].quote_asset = ecall.quote_asset
        /\ txs[1].shareholder = ecall.shareholder
        /\ txs[1].block =
            IF ecall.block_number = NoInt THEN head ELSE ecall.block_number

\* The net asset value in a quote asset was read at the latest block, which
\* is not block 1.
C12_Witness ==
    /\ EnzymeDone("get_assets_value")
    /\ ecall.net
    /\ ecall.quote_asset = "USDC"
    /\ ecall.block_number = NoInt
    /\ head > 1
    /\ txs[1].method = "calcNavInAsset"

\* C13: get_vaults_list queries the NewFundCreated events of the range the
\* caller asks for: every query starts at the caller's start_block and stops
\* at end_block, or at the latest block when end_block is 0.
C13_VaultsListRange ==
    EnzymeDone("get_vaults_list") =>
        /\ txs # <<>>
        /\ \A i \in DOMAIN txs :
            /\ txs[i].kind = "query"
            /\ txs[i].start_block = ecall.start_block
            /\ txs[i].stop_block =
                IF ecall.end_block = 0 THEN head ELSE ecall.end_block

\* C15: deposit never sends buyShares without a sufficient allowance: when
\* buyShares is sent the allowance is at least the scaled amount, approve
\* (when sent) precedes buyShares, and with simulate=True no transaction is
\* sent, neither approve nor buyShares.
C15_DepositAllowance ==
    EnzymeDone("deposit") =>
        /\ \E i \in DOMAIN txs : txs[i].method = "buyShares"
        /\ \A i \in DOMAIN txs :
            txs[i].method = "buyShares" => txs[i].allowance >= txs[i].amount
        /\ \A i, j \in DOMAIN txs :
            (txs[i].method = "approve" /\ txs[j].method = "buyShares") => i < j
        /\ ecall.simulate => \A i \in DOMAIN txs : txs[i].kind # "transact"

====
